---------------------------- MODULE Spec2Model ----------------------------
(***************************************************************************)
(* Model of the servers of therealhesham/aiprojectlast:                    *)
(*   server "A" : src/server.js                       (Gemini extraction)  *)
(*   server "B" : src/unnamed/part_000, lines 171-618 (Gemini extraction)  *)
(*   server "C" : src/unnamed/part_000, lines 623-964 (Gemini extraction)  *)
(*   server "D" : src/unnamed/part_000, lines 1-170   (Document AI)        *)
(* A JavaScript string is a sequence of one-character strings, so that    *)
(* the fence regex, trim(), JSON.parse and JSON.stringify act on text.    *)
(***************************************************************************)
EXTENDS Integers, Sequences, FiniteSets, TLC

(***************************************************************************)
(* JavaScript values.  Every value is a record of the same shape:          *)
(*   t    : "null" | "bool" | "num" | "str" | "arr" | "obj"                *)
(*   b    : the boolean of a "bool"                                        *)
(*   n    : the number of a "num" (naturals only)                          *)
(*   s    : the characters of a "str"                                      *)
(*   kids : the own enumerable properties, in insertion order, each        *)
(*          [k |-> key, v |-> value]; an array's keys are its indices      *)
(***************************************************************************)
NullV == [t |-> "null", b |-> FALSE, n |-> 0, s |-> <<>>, kids |-> <<>>]

BoolV(b) == [t |-> "bool", b |-> b, n |-> 0, s |-> <<>>, kids |-> <<>>]

NumV(n) == [t |-> "num", b |-> FALSE, n |-> n, s |-> <<>>, kids |-> <<>>]

StrV(s) == [t |-> "str", b |-> FALSE, n |-> 0, s |-> s, kids |-> <<>>]

ObjV(entries) == [t |-> "obj", b |-> FALSE, n |-> 0, s |-> <<>>, kids |-> entries]

DigitChars == <<"0", "1", "2", "3", "4", "5", "6", "7", "8", "9">>

Digits == {DigitChars[i] : i \in 1..10}

DigitValue(c) == (CHOOSE i \in 1..10 : DigitChars[i] = c) - 1

\* String(n) and JSON.stringify(n) of a natural number: its decimal digits.
RECURSIVE NumToStr(_)
NumToStr(n) ==
  IF n < 10 THEN <<DigitChars[n + 1]>>
  ELSE NumToStr(n \div 10) \o <<DigitChars[(n % 10) + 1]>>

ArrV(vals) ==
  [t |-> "arr", b |-> FALSE, n |-> 0, s |-> <<>>,
   kids |-> [i \in 1..Len(vals) |-> [k |-> NumToStr(i - 1), v |-> vals[i]]]]

Entry(k, v) == [k |-> k, v |-> v]

\* Object.keys(v)
Keys(v) == {v.kids[i].k : i \in 1..Len(v.kids)}

HasKey(v, k) == \E i \in 1..Len(v.kids) : v.kids[i].k = k

\* v[k] for an own property k
Get(v, k) == v.kids[CHOOSE i \in 1..Len(v.kids) : v.kids[i].k = k].v

\* obj[k] = v : an existing key keeps its place, a new key is appended
Put(entries, k, v) ==
  IF \E i \in 1..Len(entries) : entries[i].k = k
  THEN [i \in 1..Len(entries) |->
          IF entries[i].k = k THEN Entry(k, v) ELSE entries[i]]
  ELSE Append(entries, Entry(k, v))

(***************************************************************************)
(* JSON.stringify(value): no whitespace.  The string alphabet of the model *)
(* holds no quote, backslash or control character, so a string needs no    *)
(* escapes.                                                                *)
(***************************************************************************)
RECURSIVE Stringify(_), StringifyKids(_, _, _)
Stringify(v) ==
  CASE v.t = "null" -> <<"n", "u", "l", "l">>
    [] v.t = "bool" -> IF v.b THEN <<"t", "r", "u", "e">>
                       ELSE <<"f", "a", "l", "s", "e">>
    [] v.t = "num"  -> NumToStr(v.n)
    [] v.t = "str"  -> <<"\"">> \o v.s \o <<"\"">>
    [] v.t = "arr"  -> <<"[">> \o StringifyKids(v.kids, 1, FALSE) \o <<"]">>
    [] v.t = "obj"  -> <<"{">> \o StringifyKids(v.kids, 1, TRUE) \o <<"}">>

StringifyKids(kids, i, withKeys) ==
  IF i > Len(kids) THEN <<>>
  ELSE (IF i > 1 THEN <<",">> ELSE <<>>)
       \o (IF withKeys THEN <<"\"">> \o kids[i].k \o <<"\"", ":">> ELSE <<>>)
       \o Stringify(kids[i].v)
       \o StringifyKids(kids, i + 1, withKeys)

\* String(value) of a primitive
ToStr(v) ==
  CASE v.t = "null" -> <<"n", "u", "l", "l">>
    [] v.t = "bool" -> IF v.b THEN <<"t", "r", "u", "e">>
                       ELSE <<"f", "a", "l", "s", "e">>
    [] v.t = "num"  -> NumToStr(v.n)
    [] v.t = "str"  -> v.s
    [] OTHER        -> <<"[", "o", "b", "j", "e", "c", "t", "]">>

(***************************************************************************)
(* JSON.parse(text): a recursive-descent parser of the JSON grammar over   *)
(* the model's alphabet (objects, arrays, strings without escapes, natural *)
(* numbers, true, false, null, whitespace).  A result is                   *)
(*   [ok |-> parsed?, v |-> the value, i |-> the position after it]        *)
(***************************************************************************)
IsWs(c) == c \in {" ", "\n"}

RECURSIVE SkipWs(_, _)
SkipWs(t, i) == IF i <= Len(t) /\ IsWs(t[i]) THEN SkipWs(t, i + 1) ELSE i

HasPrefixAt(t, i, p) ==
  /\ i >= 1
  /\ i + Len(p) - 1 <= Len(t)
  /\ \A j \in 1..Len(p) : t[i + j - 1] = p[j]

ParseFail == [ok |-> FALSE, v |-> NullV, i |-> 0]

ParseOk(v, i) == [ok |-> TRUE, v |-> v, i |-> i]

\* t[i] is the opening quote
ParseString(t, i) ==
  LET closing == {j \in (i + 1)..Len(t) : t[j] = "\""}
  IN IF closing = {} THEN ParseFail
     ELSE LET j == CHOOSE x \in closing : \A y \in closing : x <= y
              s == SubSeq(t, i + 1, j - 1)
          IN IF \E m \in 1..Len(s) : s[m] = "\n" THEN ParseFail
             ELSE ParseOk(StrV(s), j + 1)

RECURSIVE DigitsEnd(_, _)
DigitsEnd(t, i) ==
  IF i <= Len(t) /\ t[i] \in Digits THEN DigitsEnd(t, i + 1) ELSE i

RECURSIVE StrToNum(_)
StrToNum(ds) ==
  IF Len(ds) = 0 THEN 0
  ELSE 10 * StrToNum(SubSeq(ds, 1, Len(ds) - 1)) + DigitValue(ds[Len(ds)])

\* t[i] is a digit; a number with a leading zero is the single digit 0
ParseNumber(t, i) ==
  IF t[i] = "0" THEN ParseOk(NumV(0), i + 1)
  ELSE LET j == DigitsEnd(t, i)
       IN ParseOk(NumV(StrToNum(SubSeq(t, i, j - 1))), j)

RECURSIVE ParseValue(_, _), ParseMembers(_, _, _), ParseElements(_, _, _)
ParseValue(t, i) ==
  IF i > Len(t) THEN ParseFail
  ELSE CASE t[i] = "{" ->
              LET j == SkipWs(t, i + 1)
              IN IF j <= Len(t) /\ t[j] = "}" THEN ParseOk(ObjV(<<>>), j + 1)
                 ELSE ParseMembers(t, j, <<>>)
         [] t[i] = "[" ->
              LET j == SkipWs(t, i + 1)
              IN IF j <= Len(t) /\ t[j] = "]" THEN ParseOk(ArrV(<<>>), j + 1)
                 ELSE ParseElements(t, j, <<>>)
         [] t[i] = "\"" -> ParseString(t, i)
         [] t[i] \in Digits -> ParseNumber(t, i)
         [] HasPrefixAt(t, i, <<"t", "r", "u", "e">>) ->
              ParseOk(BoolV(TRUE), i + 4)
         [] HasPrefixAt(t, i, <<"f", "a", "l", "s", "e">>) ->
              ParseOk(BoolV(FALSE), i + 5)
         [] HasPrefixAt(t, i, <<"n", "u", "l", "l">>) ->
              ParseOk(NullV, i + 4)
         [] OTHER -> ParseFail

\* the members of an object from position i (a key), acc the entries so far;
\* a repeated key takes the later value
ParseMembers(t, i, acc) ==
  IF i > Len(t) \/ t[i] # "\"" THEN ParseFail
  ELSE LET key == ParseString(t, i)
       IN IF ~key.ok THEN ParseFail
          ELSE LET c == SkipWs(t, key.i)
               IN IF c > Len(t) \/ t[c] # ":" THEN ParseFail
                  ELSE LET val == ParseValue(t, SkipWs(t, c + 1))
                       IN IF ~val.ok THEN ParseFail
                          ELSE LET e == SkipWs(t, val.i)
                                   acc2 == Put(acc, key.v.s, val.v)
                               IN IF e > Len(t) THEN ParseFail
                                  ELSE IF t[e] = "}"
                                       THEN ParseOk(ObjV(acc2), e + 1)
                                  ELSE IF t[e] = ","
                                       THEN ParseMembers(t, SkipWs(t, e + 1), acc2)
                                  ELSE ParseFail

\* the elements of an array from position i, acc the values so far
ParseElements(t, i, acc) ==
  LET val == ParseValue(t, i)
  IN IF ~val.ok THEN ParseFail
     ELSE LET e == SkipWs(t, val.i)
              acc2 == Append(acc, val.v)
          IN IF e > Len(t) THEN ParseFail
             ELSE IF t[e] = "]" THEN ParseOk(ArrV(acc2), e + 1)
             ELSE IF t[e] = "," THEN ParseElements(t, SkipWs(t, e + 1), acc2)
             ELSE ParseFail

\* JSON.parse(t): ok = FALSE stands for the SyntaxError it throws
JSONparse(t) ==
  LET r == ParseValue(t, SkipWs(t, 1))
  IN IF r.ok /\ SkipWs(t, r.i) = Len(t) + 1 THEN r ELSE ParseFail

(***************************************************************************)
(* rawText.replace(/```json\n?|\n?```/g, '').trim()                        *)
(***************************************************************************)
\* The backtick character (a TLA+ string literal cannot hold one).
BT == "BACKTICK"

FenceJson == <<BT, BT, BT, "j", "s", "o", "n">>

Fence == <<BT, BT, BT>>

\* the length of the regex's match at position i, 0 when it does not match
FenceMatchLen(t, i) ==
  IF HasPrefixAt(t, i, FenceJson)
  THEN Len(FenceJson) + (IF i + Len(FenceJson) <= Len(t) /\ t[i + Len(FenceJson)] = "\n"
                         THEN 1 ELSE 0)
  ELSE IF t[i] = "\n" /\ HasPrefixAt(t, i + 1, Fence) THEN 1 + Len(Fence)
  ELSE IF HasPrefixAt(t, i, Fence) THEN Len(Fence)
  ELSE 0

RECURSIVE RemoveFences(_, _)
RemoveFences(t, i) ==
  IF i > Len(t) THEN <<>>
  ELSE LET m == FenceMatchLen(t, i)
       IN IF m > 0 THEN RemoveFences(t, i + m)
          ELSE <<t[i]>> \o RemoveFences(t, i + 1)

RECURSIVE TrimEnd(_)
TrimEnd(t) ==
  IF Len(t) > 0 /\ IsWs(t[Len(t)]) THEN TrimEnd(SubSeq(t, 1, Len(t) - 1)) ELSE t

Trim(t) == TrimEnd(SubSeq(t, SkipWs(t, 1), Len(t)))

CleanText(t) == Trim(RemoveFences(t, 1))


(***************************************************************************)
(* The normalization steps of the route handlers.                          *)
(***************************************************************************)
TypeOf(v) ==
  CASE v.t \in {"null", "arr", "obj"} -> "object"
    [] v.t = "bool" -> "boolean"
    [] v.t = "num"  -> "number"
    [] v.t = "str"  -> "string"

IsArray(v) == v.t = "arr"

\* a flat-object check without Array.isArray
NotFlatObjectArraysPass(v) == TypeOf(v) # "object" \/ v = NullV

\* the condition under which the handler throws 'Response is not a valid
\* flat JSON object'
NotFlatObject(v) == TypeOf(v) # "object" \/ IsArray(v) \/ v = NullV

\* a reduce that leaves every value as it is
CoerceNothing(value) == value

\* one step of the reduce: the string a value is replaced by
Coerce(value) ==
  IF TypeOf(value) = "object" /\ value # NullV
  THEN StrV(Stringify(value))
  ELSE StrV(ToStr(value))

\* Object.entries(jsonResponse).reduce((acc, [key, value]) => ..., {})
RECURSIVE ReduceEntries(_, _, _)
ReduceEntries(kids, i, acc) ==
  IF i > Len(kids) THEN acc
  ELSE ReduceEntries(kids, i + 1, Put(acc, kids[i].k, Coerce(kids[i].v)))

Reduce(v) == ObjV(ReduceEntries(v.kids, 1, <<>>))

\* The schema of server B's POST /api/gemini, three of its thirty keys.
allowedKeys == << <<"N", "a", "m", "e">>, <<"a", "g", "e">>, <<"j", "o", "b">> >>

\* allowedKeys.forEach(key => finalResponse[key] = ...)
RECURSIVE FinalEntries(_, _, _)
FinalEntries(jsonResponse, i, acc) ==
  IF i > Len(allowedKeys) THEN acc
  ELSE LET key == allowedKeys[i]
       IN FinalEntries(jsonResponse, i + 1,
            Put(acc, key, IF HasKey(jsonResponse, key)
                          THEN StrV(ToStr(Get(jsonResponse, key)))
                          ELSE NullV))

finalResponse(jsonResponse) == ObjV(FinalEntries(jsonResponse, 1, <<>>))

(***************************************************************************)
(* Servers, routes and responses.                                          *)
(***************************************************************************)
Servers == {"A", "B", "C"}

GEMINI == "/api/gemini"

PROMPT == "/prompt"

Routes == {GEMINI, PROMPT}

(***************************************************************************)
(* The four server programs and their middleware stacks.  Server "D" is    *)
(* the Document AI server (src/unnamed/part_000, lines 1-170).             *)
(***************************************************************************)
DOCAI == "D"

AllServers == Servers \cup {DOCAI}

PROCESS_DOCUMENT == "/process-document"

PROCESSOR_CONTROL == "/processor-control"

MULTER_ERROR_HANDLER == "multer error handling middleware"

\* the layers of app, in the order the program registers them
Stack(srv) ==
  IF srv = DOCAI
  THEN <<"cors", "express.json", "express.urlencoded",
         PROCESS_DOCUMENT, PROCESSOR_CONTROL, "/processor-control/status">>
  ELSE <<"cors", "express.json", "express.urlencoded", MULTER_ERROR_HANDLER,
         GEMINI, PROCESS_DOCUMENT, PROMPT, "/health">>

\* the POST routes of a server
RoutesOf(srv) ==
  IF srv = DOCAI THEN {PROCESS_DOCUMENT, PROCESSOR_CONTROL}
  ELSE {GEMINI, PROCESS_DOCUMENT, PROMPT}

\* next(err) from the layer of route rt goes on down the stack: the error
\* handlers it can reach are those registered after the route
ErrorHandlersAfter(stack, rt) ==
  LET at == CHOOSE i \in 1..Len(stack) : stack[i] = rt
  IN {j \in (at + 1)..Len(stack) : stack[j] = MULTER_ERROR_HANDLER}

(***************************************************************************)
(* Requests.  A request holds                                              *)
(*   file   : "none" or the MIME type of the uploaded file                 *)
(*   size   : the size of the file in MB                                   *)
(*   text   : the body's text field,   <<>> when absent, else <<string>>   *)
(*   model  : the body's model field,  <<>> when absent, else <<value>>    *)
(*   action : the body's action field, <<>> when absent, else <<string>>   *)
(***************************************************************************)
NoFile == "none"

PDF == "application/pdf"

allowedTypes == {"image/png", "image/jpeg", PDF}

\* limits: { fileSize: 50 * 1024 * 1024 }, in MB
FileSizeLimitMB == 50

\* a body value that is not a string (a JSON number)
NOT_A_STRING == "123 (a number)"

NoRequest == [file |-> NoFile, size |-> 0, text |-> <<>>, model |-> <<>>, action |-> <<>>]

\* JavaScript truthiness of a body field
Truthy(field) == field # <<>> /\ field[1] # ""

ERR_FILE_TYPE == "please upload an image (PNG or JPEG) or PDF file only"

ERR_FILE_SIZE == "the file is too large, the maximum is 50 MB"

LIMIT_FILE_SIZE == "LIMIT_FILE_SIZE"

NoError == "no error"

\* The error the upload middleware passes to next, NoError when it passes
\* the request on: fileFilter sees the file before its size is known.
UploadError(srv, rt, rq) ==
  IF srv = DOCAI \/ rt \notin {GEMINI, PROCESS_DOCUMENT} \/ rq.file = NoFile
  THEN NoError
  ELSE IF rq.file \notin allowedTypes THEN ERR_FILE_TYPE
  ELSE IF rq.size > FileSizeLimitMB THEN LIMIT_FILE_SIZE
  ELSE NoError

\* Only server A's POST /prompt parses the upstream text as it came.
StripsFences(srv, rt) == ~(srv = "A" /\ rt = PROMPT)

\* Only server B's POST /api/gemini rebuilds the result from allowedKeys.
EnforcesSchema(srv, rt) == srv = "B" /\ rt = GEMINI

\* The error strings of the response bodies (Arabic in the source).
ERR_NO_FILE == "no file was uploaded"

ERR_NO_TEXT == "please provide a text to process"

ERR_PARSE == "failed to parse the Gemini response as valid JSON"

ERR_INTERNAL_IMAGE == "internal error while processing the image"

ERR_INTERNAL_TEXT == "internal error while processing the text"

FLAT_MESSAGE == <<"Response is not a valid flat JSON object">>

\* The message of the SyntaxError JSON.parse throws: it depends on the text.
SyntaxErrorMessage(text) == <<"SyntaxError: ">> \o text

UPSTREAM_MESSAGE == <<"upstream call failed">>

\* message, text and entities are the body of the responses that carry no
\* jsonResponse: <<>> and NullV stand for an absent property
NoResponse ==
  [status |-> 0, error |-> "", hasJson |-> FALSE, jsonResponse |-> NullV,
   details |-> <<>>, rawResponse |-> <<>>,
   message |-> "", text |-> <<>>, entities |-> NullV]

\* res.json drops a property whose value is undefined: <<>> is undefined,
\* <<x>> is the value x.
DiagnosticsAlways(env, x) == <<x>>

\* process.env.NODE_ENV === 'development' ? x : undefined
Diagnostics(env, x) == IF env = "development" THEN <<x>> ELSE <<>>

BadRequest(rt) ==
  [NoResponse EXCEPT !.status = 400,
                     !.error = IF rt = PROMPT THEN ERR_NO_TEXT ELSE ERR_NO_FILE]

\* the outer catch of a handler
InternalError(env, rt, message) ==
  [NoResponse EXCEPT !.status = 500,
                     !.error = IF rt = GEMINI THEN ERR_INTERNAL_IMAGE
                               ELSE ERR_INTERNAL_TEXT,
                     !.details = Diagnostics(env, message)]

\* a handler without the inner try/catch: the parse error reaches the outer catch
MalformedUncaught(env, rt, message, text) == InternalError(env, rt, message)

\* the inner catch (parseError): POST /api/gemini adds rawResponse
Malformed(env, rt, message, text) ==
  [NoResponse EXCEPT !.status = 500,
                     !.error = ERR_PARSE,
                     !.details = Diagnostics(env, message),
                     !.rawResponse = IF rt = GEMINI THEN Diagnostics(env, text)
                                     ELSE <<>>]

Success(json) ==
  [NoResponse EXCEPT !.status = 200, !.hasJson = TRUE, !.jsonResponse = json]

\* the text a handler hands to JSON.parse
Cleaned(srv, rt, raw) == IF StripsFences(srv, rt) THEN CleanText(raw) ELSE raw

\* What a handler answers once the upstream text raw has arrived.
HandlerOutcome(srv, env, rt, raw) ==
  LET text == Cleaned(srv, rt, raw)
      parsed == JSONparse(text)
  IN IF ~parsed.ok THEN Malformed(env, rt, SyntaxErrorMessage(text), text)
     ELSE IF NotFlatObject(parsed.v) THEN Malformed(env, rt, FLAT_MESSAGE, text)
     ELSE LET jsonResponse == Reduce(parsed.v)
          IN IF EnforcesSchema(srv, rt) THEN Success(finalResponse(jsonResponse))
             ELSE Success(jsonResponse)


(***************************************************************************)
(* Errors of the upload middleware.                                        *)
(***************************************************************************)
\* the multer error handling middleware: the response it sends, NoResponse
\* when it passes the error on with next(err)
MulterErrorMiddleware(env, err) ==
  IF err = LIMIT_FILE_SIZE
  THEN [NoResponse EXCEPT !.status = 400, !.error = ERR_FILE_SIZE,
                          !.details = Diagnostics(env, <<err>>)]
  ELSE IF err = ERR_FILE_TYPE
  THEN [NoResponse EXCEPT !.status = 400, !.error = err,
                          !.details = Diagnostics(env, <<err>>)]
  ELSE NoResponse

\* the framework's final handler: an error without a status is a 500
DefaultErrorHandler(err) ==
  [NoResponse EXCEPT !.status = 500, !.error = "Internal Server Error"]

\* The response to an error that the upload middleware of route rt passed to
\* next: the first error handler registered after the route answers, and the
\* final handler when there is none or when it passes the error on.
DispatchError(srv, env, rt, err) ==
  IF ErrorHandlersAfter(Stack(srv), rt) # {}
        /\ MulterErrorMiddleware(env, err) # NoResponse
  THEN MulterErrorMiddleware(env, err)
  ELSE DefaultErrorHandler(err)

(***************************************************************************)
(* Model selection.                                                        *)
(***************************************************************************)
DEFAULT_MODEL == "gemini-2.5-flash"

\* a selection that lets the environment override the request
SelectModelEnvFirst(srv, bodyModel, envModel) ==
  IF srv = "A" THEN DEFAULT_MODEL
  ELSE IF Truthy(envModel) THEN envModel[1]
  ELSE IF Truthy(bodyModel) THEN bodyModel[1]
  ELSE DEFAULT_MODEL

\* req.body.model || process.env.GEMINI_MODEL || 'gemini-2.5-flash' on
\* servers B and C; server A has one model object, made at startup
SelectModel(srv, bodyModel, envModel) ==
  IF srv = "A" THEN DEFAULT_MODEL
  ELSE IF Truthy(bodyModel) THEN bodyModel[1]
  ELSE IF Truthy(envModel) THEN envModel[1]
  ELSE DEFAULT_MODEL

\* genAI.getGenerativeModel({ model }) throws when model is not a string
GetGenerativeModelThrows(name) == name = NOT_A_STRING

\* is the call of getGenerativeModel inside the handler's try block?
ModelInsideTry(srv, rt) == rt = GEMINI

(***************************************************************************)
(* The Document AI server: entities of a processed document.               *)
(***************************************************************************)
\* JavaScript truthiness of a value
ToBoolean(v) ==
  CASE v.t = "null" -> FALSE
    [] v.t = "bool" -> v.b
    [] v.t = "num"  -> v.n # 0
    [] v.t = "str"  -> v.s # <<>>
    [] OTHER        -> TRUE

\* the elements of an array
Elements(arr) == [i \in 1..Len(arr.kids) |-> arr.kids[i].v]

\* one turn of the loop over document.entities
AddEntity(entities, entity) ==
  LET key == entity.type
      value == IF ToBoolean(entity.mentionText) THEN entity.mentionText
               ELSE StrV(<<>>)
      current == IF HasKey(ObjV(entities), key) THEN Get(ObjV(entities), key)
                 ELSE NullV
  IN IF ToBoolean(current)
     THEN LET array == IF IsArray(current) THEN current ELSE ArrV(<<current>>)
          IN Put(entities, key, ArrV(Append(Elements(array), value)))
     ELSE Put(entities, key, value)

\* extractedData.entities after the loop over the document's entities
RECURSIVE ExtractEntities(_)
ExtractEntities(list) ==
  IF list = <<>> THEN <<>>
  ELSE AddEntity(ExtractEntities(SubSeq(list, 1, Len(list) - 1)), list[Len(list)])

ERR_NOT_PDF == "only PDF files are allowed"

ERR_INTERNAL_DOCUMENT == "internal error while processing the document"

ERR_BAD_ACTION == "a valid action is required: enable or disable"

ERR_INTERNAL_CONTROL == "internal error while switching the processor"

MSG_STUB == "this endpoint is under development, use /api/gemini"

MSG_CONTROL == "the processor was switched"

\* res.status(200).json(extractedData)
Extracted(document) ==
  [NoResponse EXCEPT !.status = 200,
                     !.text = <<document.text>>,
                     !.entities = ObjV(ExtractEntities(document.entities))]

\* the cloud call POST /processor-control makes for an action
enableProcessor == "enableProcessor"

disableProcessor == "disableProcessor"

processDocument == "processDocument"

\* a handler with the two branches exchanged
ControlCallSwapped(action) ==
  IF action = "disable" THEN enableProcessor ELSE disableProcessor

ControlCall(action) ==
  IF action = "disable" THEN disableProcessor ELSE enableProcessor


(***************************************************************************)
(* The upstream service: the texts generateContent may resolve to.         *)
(***************************************************************************)
kName == allowedKeys[1]

kAge == allowedKeys[2]

kJob == allowedKeys[3]

\* a key outside the schema
kId == <<"i", "d">>

sAli == <<"A", "l", "i">>

sX == <<"x">>

\* a string holding a triple backtick
sTicks == <<"a", BT, BT, BT, "b">>

ObjectValues ==
  { ObjV(<<>>),
    ObjV(<<Entry(kName, StrV(sAli))>>),
    ObjV(<<Entry(kName, StrV(sAli)), Entry(kAge, StrV(<<"7">>)), Entry(kJob, StrV(sX))>>),
    ObjV(<<Entry(kName, StrV(sAli)), Entry(kId, StrV(sX))>>),
    ObjV(<<Entry(kId, StrV(sX))>>),
    ObjV(<<Entry(kAge, NumV(25)), Entry(kJob, BoolV(TRUE))>>),
    ObjV(<<Entry(kJob, NullV)>>),
    ObjV(<<Entry(kName, ArrV(<<StrV(sAli), StrV(sX)>>))>>),
    ObjV(<<Entry(kName, ObjV(<<Entry(kId, NumV(0))>>))>>),
    ObjV(<<Entry(kJob, StrV(sTicks))>>),
    ObjV(<<Entry(kJob, ArrV(<<StrV(Fence)>>))>>) }

OtherValues ==
  { ArrV(<<NumV(1), NumV(2)>>), ArrV(<<>>), NullV, NumV(7), StrV(sAli), BoolV(FALSE) }

UpstreamValues == ObjectValues \cup OtherValues

\* texts that are not JSON
NameAli == <<"N", "a", "m", "e", ":", " ", "A", "l", "i">>

Truncated == <<"{", "\"", "N", "a", "m", "e", "\"", ":">>

MalformedTexts == { NameAli, Truncated, <<>> }

\* A code fence around a text: ```json, a bare ```, or another language tag.
FenceTags == { <<"j", "s", "o", "n">>, <<>>, <<"j", "s">> }

Fenced(tag, text) == Fence \o tag \o <<"\n">> \o text \o <<"\n">> \o Fence

Fencings(text) == {Fenced(tag, text) : tag \in FenceTags}

JsonTexts == {Stringify(v) : v \in UpstreamValues}

UpstreamTexts ==
  JsonTexts \cup UNION {Fencings(t) : t \in JsonTexts}
            \cup MalformedTexts \cup Fencings(NameAli)

\* the texts of the runs with several requests in flight
ConcurrentTexts ==
  { Stringify(ObjV(<<Entry(kName, StrV(sAli))>>)),
    Fenced(<<"j", "s", "o", "n">>, Stringify(ObjV(<<Entry(kName, StrV(sAli))>>))),
    Stringify(ObjV(<<Entry(kAge, NumV(25)), Entry(kId, StrV(sX))>>)),
    Stringify(ArrV(<<NumV(1), NumV(2)>>)),
    NameAli,
    Truncated }

(***************************************************************************)
(* Inputs: the requests a client may send, the environment of the process, *)
(* the documents the Document AI service may return.                       *)
(***************************************************************************)
PNG == "image/png"

SomeText == <<"Ali, 25">>

WithFile(type, size) == [NoRequest EXCEPT !.file = type, !.size = size]

WithText(text, model) == [NoRequest EXCEPT !.text = text, !.model = model]

\* an input is <<route, request>>
BasicInputs ==
  { <<GEMINI, WithFile(PNG, 1)>>, <<GEMINI, NoRequest>>,
    <<PROMPT, WithText(SomeText, <<>>)>>, <<PROMPT, NoRequest>> }

BodyModels == {<<>>, <<"">>, <<"gemini-1.5-pro">>}

UploadInputs ==
  { <<rt, rq>> : rt \in {GEMINI, PROCESS_DOCUMENT},
                 rq \in {NoRequest}
                        \cup {WithFile(f, s) :
                                f \in {PNG, PDF, "text/plain"},
                                s \in {1, FileSizeLimitMB, FileSizeLimitMB + 1}} }

PromptInputs ==
  { <<PROMPT, WithText(t, m)>> :
      t \in {<<>>, <<"">>, SomeText},
      m \in {<<>>, <<"gemini-1.5-pro">>, <<NOT_A_STRING>>} }

ControlInputs ==
  { <<PROCESSOR_CONTROL, [NoRequest EXCEPT !.action = a]>> :
      a \in {<<>>, <<"">>, <<"enable">>, <<"disable">>, <<"Enable">>, <<"status">>} }

AllInputs == UploadInputs \cup PromptInputs \cup ControlInputs

ModelInputs ==
  { <<GEMINI, [WithFile(PNG, 1) EXCEPT !.model = m]>> : m \in BodyModels }
  \cup { <<PROMPT, WithText(SomeText, m)>> : m \in BodyModels }

DocumentInputs ==
  { <<PROCESS_DOCUMENT, rq>> :
      rq \in {NoRequest, WithFile(PDF, 1), WithFile(PNG, 1)} }
  \cup ControlInputs

MaxEntities == 3

EntityTypes == {<<"a">>, <<"b">>}

\* entity.mentionText: absent, empty or a text
MentionTexts == {NullV, StrV(<<>>), StrV(sX), StrV(<<"y">>)}

EntityLists ==
  UNION {[1..n -> [type : EntityTypes, mentionText : MentionTexts]] :
           n \in 0..MaxEntities}

Documents == {[text |-> <<"t">>, entities |-> l] : l \in EntityLists}

RouteDocuments == {d \in Documents : Len(d.entities) <= 1}

ENV_KEY == "key of the environment"

HARDCODED_KEY == "key written in src/server.js"

\* const API_KEY = process.env.GEMINI_API_KEY           (servers B and C)
\* const API_KEY = process.env.GEMINI_API_KEY || "..."  (server A)
ApiKey(srv, env) ==
  IF srv = "A" /\ ~Truthy(env) THEN <<HARDCODED_KEY>> ELSE env

(***************************************************************************)
(* The server process and its requests.                                    *)
(***************************************************************************)
NumRequests == 2

Requests == 1..NumRequests

VARIABLES
  server,    \* which of the four servers the process runs
  nodeEnv,   \* process.env.NODE_ENV
  apiKeyEnv, \* process.env.GEMINI_API_KEY, <<>> when unset
  modelEnv,  \* process.env.GEMINI_MODEL, <<>> when unset
  proc,      \* "starting", "listening" or "exited"
  exitCode,  \* the status of process.exit
  client,    \* has the process created its API client?
  logged,    \* has the process logged the missing key?
  pc,        \* each request's position in its handler
  route,     \* each request's route
  req,       \* each request's file and body
  usedModel, \* the model name each request's handler selected
  calls,     \* generateContent calls made for each request
  rawText,   \* <<>> or <<the text generateContent resolved to>>
  cloud,     \* the Document AI calls made for each request, in order
  document,  \* <<>> or <<the document processDocument resolved to>>
  opDone,    \* has the request's long-running operation completed?
  response,  \* the response sent for each request
  sent       \* how many responses were sent for each request

procVars == <<server, nodeEnv, apiKeyEnv, modelEnv, proc, exitCode, client, logged>>

reqVars ==
  <<pc, route, req, usedModel, calls, rawText, cloud, document, opDone,
    response, sent>>

vars == <<procVars, reqVars>>

\* no request has arrived
RequestsIdle ==
  /\ pc = [r \in Requests |-> "idle"]
  /\ route = [r \in Requests |-> "none"]
  /\ req = [r \in Requests |-> NoRequest]
  /\ usedModel = [r \in Requests |-> ""]
  /\ calls = [r \in Requests |-> 0]
  /\ rawText = [r \in Requests |-> <<>>]
  /\ cloud = [r \in Requests |-> <<>>]
  /\ document = [r \in Requests |-> <<>>]
  /\ opDone = [r \in Requests |-> FALSE]
  /\ response = [r \in Requests |-> NoResponse]
  /\ sent = [r \in Requests |-> 0]

\* the process after app.listen
Listening ==
  /\ proc = "listening"
  /\ exitCode = 0
  /\ client = TRUE
  /\ logged = FALSE

\* a Gemini server started with its key, listening
Init ==
  /\ server \in Servers
  /\ nodeEnv \in {"development", "production"}
  /\ apiKeyEnv = <<ENV_KEY>>
  /\ modelEnv = <<>>
  /\ Listening
  /\ RequestsIdle

\* any of the four servers, listening
InitRoutes ==
  /\ server \in AllServers
  /\ nodeEnv \in {"development", "production"}
  /\ apiKeyEnv = <<ENV_KEY>>
  /\ modelEnv = <<>>
  /\ Listening
  /\ RequestsIdle

\* a Gemini server under every setting of GEMINI_MODEL
InitModel ==
  /\ server \in Servers
  /\ nodeEnv = "production"
  /\ apiKeyEnv = <<ENV_KEY>>
  /\ modelEnv \in {<<>>, <<"">>, <<"gemini-2.0-flash">>}
  /\ Listening
  /\ RequestsIdle

\* the Document AI server, listening
InitDocument ==
  /\ server = DOCAI
  /\ nodeEnv \in {"development", "production"}
  /\ apiKeyEnv = <<>>
  /\ modelEnv = <<>>
  /\ Listening
  /\ RequestsIdle

\* a Gemini server's process before its first statement
InitStartup ==
  /\ server \in Servers
  /\ nodeEnv \in {"development", "production"}
  /\ apiKeyEnv \in {<<>>, <<"">>, <<ENV_KEY>>}
  /\ modelEnv = <<>>
  /\ proc = "starting"
  /\ exitCode = 0
  /\ client = FALSE
  /\ logged = FALSE
  /\ RequestsIdle

\* The top level of a Gemini server's module: the check of API_KEY, the
\* client, app.listen.
Startup ==
  /\ proc = "starting"
  /\ IF ~Truthy(ApiKey(server, apiKeyEnv))
     THEN /\ logged' = TRUE
          /\ exitCode' = 1
          /\ proc' = "exited"
          /\ UNCHANGED client
     ELSE /\ client' = TRUE
          /\ proc' = "listening"
          /\ UNCHANGED <<logged, exitCode>>
  /\ UNCHANGED <<server, nodeEnv, apiKeyEnv, modelEnv, reqVars>>

\* res.status(...).json(resp): the handler of request r ends with a response
Respond(r, resp) ==
  /\ response' = [response EXCEPT ![r] = resp]
  /\ sent' = [sent EXCEPT ![r] = @ + 1]
  /\ pc' = [pc EXCEPT ![r] = "done"]

\* A request arrives and passes the middleware of its route: the upload
\* middleware hands the request to the handler or an error to next.
Receive(r, inputs) ==
  /\ proc = "listening"
  /\ pc[r] = "idle"
  /\ \E in \in inputs :
       /\ in[1] \in RoutesOf(server)
       /\ route' = [route EXCEPT ![r] = in[1]]
       /\ req' = [req EXCEPT ![r] = in[2]]
       /\ IF UploadError(server, in[1], in[2]) # NoError
          THEN Respond(r, DispatchError(server, nodeEnv, in[1],
                                        UploadError(server, in[1], in[2])))
          ELSE /\ pc' = [pc EXCEPT ![r] = "handler"]
               /\ UNCHANGED <<response, sent>>
  /\ UNCHANGED <<procVars, usedModel, calls, rawText, cloud, document, opDone>>

\* if (!req.file) return res.status(400)
ValidateFile(rq) ==
  IF rq.file = NoFile THEN BadRequest(GEMINI) ELSE NoResponse

\* if (!text) return res.status(400)
ValidateText(rq) ==
  IF ~Truthy(rq.text) THEN BadRequest(PROMPT) ELSE NoResponse

\* a Document AI handler that takes a file of any type
ValidateDocumentAnyType(rq) ==
  IF rq.file = NoFile THEN BadRequest(PROCESS_DOCUMENT) ELSE NoResponse

\* the two checks of the Document AI server's POST /process-document
ValidateDocument(rq) ==
  IF rq.file = NoFile THEN BadRequest(PROCESS_DOCUMENT)
  ELSE IF rq.file # PDF
  THEN [NoResponse EXCEPT !.status = 400, !.error = ERR_NOT_PDF]
  ELSE NoResponse

\* if (!action || !['enable', 'disable'].includes(action))
ValidateAction(rq) ==
  IF ~Truthy(rq.action) \/ rq.action[1] \notin {"enable", "disable"}
  THEN [NoResponse EXCEPT !.status = 400, !.error = ERR_BAD_ACTION]
  ELSE NoResponse

\* The handler of request r selects its model and calls generateContent.
\* getGenerativeModel may throw: inside the try block the outer catch
\* answers; outside it the handler's promise rejects, and the framework
\* either leaves the request unanswered or hands the error to its final
\* handler, as its version has it.
SelectAndGenerate(r) ==
  LET name == SelectModel(server, req[r].model, modelEnv)
  IN /\ usedModel' = [usedModel EXCEPT ![r] = name]
     /\ IF GetGenerativeModelThrows(name)
        THEN /\ UNCHANGED calls
             /\ IF ModelInsideTry(server, route[r])
                THEN Respond(r, InternalError(nodeEnv, route[r], UPSTREAM_MESSAGE))
                ELSE \E forwarded \in BOOLEAN :
                       IF forwarded
                       THEN Respond(r, DefaultErrorHandler(NOT_A_STRING))
                       ELSE /\ pc' = [pc EXCEPT ![r] = "rejected"]
                            /\ UNCHANGED <<response, sent>>
        ELSE /\ calls' = [calls EXCEPT ![r] = @ + 1]
             /\ pc' = [pc EXCEPT ![r] = "awaiting"]
             /\ UNCHANGED <<response, sent>>

\* POST /api/gemini from its entry to its first await
HandleGemini(r) ==
  /\ pc[r] = "handler"
  /\ route[r] = GEMINI
  /\ IF ValidateFile(req[r]) # NoResponse
     THEN /\ Respond(r, ValidateFile(req[r]))
          /\ UNCHANGED <<usedModel, calls>>
     ELSE SelectAndGenerate(r)
  /\ UNCHANGED <<procVars, route, req, rawText, cloud, document, opDone>>

\* POST /prompt from its entry to its first await
HandlePrompt(r) ==
  /\ pc[r] = "handler"
  /\ route[r] = PROMPT
  /\ IF ValidateText(req[r]) # NoResponse
     THEN /\ Respond(r, ValidateText(req[r]))
          /\ UNCHANGED <<usedModel, calls>>
     ELSE SelectAndGenerate(r)
  /\ UNCHANGED <<procVars, route, req, rawText, cloud, document, opDone>>

\* POST /process-document of a Gemini server: it calls no service
HandleProcessDocumentStub(r) ==
  /\ pc[r] = "handler"
  /\ route[r] = PROCESS_DOCUMENT
  /\ server # DOCAI
  /\ IF ValidateFile(req[r]) # NoResponse
     THEN Respond(r, ValidateFile(req[r]))
     ELSE Respond(r, [NoResponse EXCEPT !.status = 200, !.message = MSG_STUB])
  /\ UNCHANGED <<procVars, route, req, usedModel, calls, rawText, cloud,
                 document, opDone>>

\* generateContent resolves: the upstream text of request r is there.
GenerateContentResolve(r, texts) ==
  /\ pc[r] = "awaiting"
  /\ \E t \in texts : rawText' = [rawText EXCEPT ![r] = <<t>>]
  /\ pc' = [pc EXCEPT ![r] = "received"]
  /\ UNCHANGED <<procVars, route, req, usedModel, calls, cloud, document,
                 opDone, response, sent>>

\* generateContent rejects (or response.text() throws): the outer catch answers.
GenerateContentReject(r) ==
  /\ pc[r] = "awaiting"
  /\ Respond(r, InternalError(nodeEnv, route[r], UPSTREAM_MESSAGE))
  /\ UNCHANGED <<procVars, route, req, usedModel, calls, rawText, cloud,
                 document, opDone>>

\* a handler that calls generateContent again after a malformed text
ResumeRetrying(r) ==
  /\ pc[r] = "received"
  /\ LET out == HandlerOutcome(server, nodeEnv, route[r], rawText[r][1])
     IN IF out.error = ERR_PARSE
        THEN /\ calls' = [calls EXCEPT ![r] = @ + 1]
             /\ pc' = [pc EXCEPT ![r] = "awaiting"]
             /\ UNCHANGED <<response, sent>>
        ELSE /\ Respond(r, out)
             /\ UNCHANGED calls
  /\ UNCHANGED <<procVars, route, req, usedModel, rawText, cloud, document,
                 opDone>>

\* a handler whose rawText is one variable shared by all requests
ResumeShared(r) ==
  /\ pc[r] = "received"
  /\ \E q \in Requests :
       /\ rawText[q] # <<>>
       /\ Respond(r, HandlerOutcome(server, nodeEnv, route[r], rawText[q][1]))
  /\ UNCHANGED <<procVars, route, req, usedModel, calls, rawText, cloud,
                 document, opDone>>

\* The handler from the upstream text to its response: cleaning, parsing,
\* normalizing, res.status(...).json(...).
Resume(r) ==
  /\ pc[r] = "received"
  /\ Respond(r, HandlerOutcome(server, nodeEnv, route[r], rawText[r][1]))
  /\ UNCHANGED <<procVars, route, req, usedModel, calls, rawText, cloud,
                 document, opDone>>

\* The Document AI server's POST /process-document from its entry to its
\* first await: the two checks, then client.processDocument.
HandleProcessDocument(r) ==
  /\ pc[r] = "handler"
  /\ route[r] = PROCESS_DOCUMENT
  /\ server = DOCAI
  /\ IF ValidateDocument(req[r]) # NoResponse
     THEN /\ Respond(r, ValidateDocument(req[r]))
          /\ UNCHANGED cloud
     ELSE /\ cloud' = [cloud EXCEPT ![r] = Append(@, processDocument)]
          /\ pc' = [pc EXCEPT ![r] = "awaitingDocument"]
          /\ UNCHANGED <<response, sent>>
  /\ UNCHANGED <<procVars, route, req, usedModel, calls, rawText, document,
                 opDone>>

\* client.processDocument resolves
ProcessDocumentResolve(r, documents) ==
  /\ pc[r] = "awaitingDocument"
  /\ \E d \in documents : document' = [document EXCEPT ![r] = <<d>>]
  /\ pc' = [pc EXCEPT ![r] = "processed"]
  /\ UNCHANGED <<procVars, route, req, usedModel, calls, rawText, cloud,
                 opDone, response, sent>>

\* client.processDocument rejects: the catch answers
ProcessDocumentReject(r) ==
  /\ pc[r] = "awaitingDocument"
  /\ Respond(r, [NoResponse EXCEPT !.status = 500,
                                   !.error = ERR_INTERNAL_DOCUMENT,
                                   !.details = Diagnostics(nodeEnv, UPSTREAM_MESSAGE)])
  /\ UNCHANGED <<procVars, route, req, usedModel, calls, rawText, cloud,
                 document, opDone>>

\* the handler from the document to its response
ResumeProcessDocument(r) ==
  /\ pc[r] = "processed"
  /\ Respond(r, Extracted(document[r][1]))
  /\ UNCHANGED <<procVars, route, req, usedModel, calls, rawText, cloud,
                 document, opDone>>

\* POST /processor-control from its entry to its first await: the check of
\* action, then client.disableProcessor or client.enableProcessor.
HandleProcessorControl(r) ==
  /\ pc[r] = "handler"
  /\ route[r] = PROCESSOR_CONTROL
  /\ IF ValidateAction(req[r]) # NoResponse
     THEN /\ Respond(r, ValidateAction(req[r]))
          /\ UNCHANGED cloud
     ELSE /\ cloud' = [cloud EXCEPT ![r] = Append(@, ControlCall(req[r].action[1]))]
          /\ pc' = [pc EXCEPT ![r] = "awaitingStart"]
          /\ UNCHANGED <<response, sent>>
  /\ UNCHANGED <<procVars, route, req, usedModel, calls, rawText, document,
                 opDone>>

\* the catch of POST /processor-control
ControlError(env) ==
  [NoResponse EXCEPT !.status = 500, !.error = ERR_INTERNAL_CONTROL,
                     !.details = Diagnostics(env, UPSTREAM_MESSAGE)]

\* the cloud call resolves with its operation: the handler awaits
\* operation.promise()
OperationStart(r) ==
  /\ pc[r] = "awaitingStart"
  /\ pc' = [pc EXCEPT ![r] = "awaitingOperation"]
  /\ UNCHANGED <<procVars, route, req, usedModel, calls, rawText, cloud,
                 document, opDone, response, sent>>

\* the cloud call rejects: the catch answers
OperationStartReject(r) ==
  /\ pc[r] = "awaitingStart"
  /\ Respond(r, ControlError(nodeEnv))
  /\ UNCHANGED <<procVars, route, req, usedModel, calls, rawText, cloud,
                 document, opDone>>

\* the long-running operation completes: operation.promise() resolves
OperationComplete(r) ==
  /\ pc[r] = "awaitingOperation"
  /\ opDone' = [opDone EXCEPT ![r] = TRUE]
  /\ pc' = [pc EXCEPT ![r] = "completed"]
  /\ UNCHANGED <<procVars, route, req, usedModel, calls, rawText, cloud,
                 document, response, sent>>

\* the long-running operation fails: operation.promise() rejects and the
\* catch answers
OperationFail(r) ==
  /\ pc[r] = "awaitingOperation"
  /\ Respond(r, ControlError(nodeEnv))
  /\ UNCHANGED <<procVars, route, req, usedModel, calls, rawText, cloud,
                 document, opDone>>

\* a handler that does not await operation.promise()
ResumeProcessorControlEarly(r) ==
  /\ pc[r] \in {"awaitingOperation", "completed"}
  /\ Respond(r, [NoResponse EXCEPT !.status = 200, !.message = MSG_CONTROL])
  /\ UNCHANGED <<procVars, route, req, usedModel, calls, rawText, cloud,
                 document, opDone>>

\* the handler after operation.promise() resolved: res.status(200)
ResumeProcessorControl(r) ==
  /\ pc[r] = "completed"
  /\ Respond(r, [NoResponse EXCEPT !.status = 200, !.message = MSG_CONTROL])
  /\ UNCHANGED <<procVars, route, req, usedModel, calls, rawText, cloud,
                 document, opDone>>

\* Requests handled concurrently by a Gemini server.
Next ==
  \E r \in Requests :
    \/ Receive(r, BasicInputs)
    \/ HandleGemini(r)
    \/ HandlePrompt(r)
    \/ GenerateContentResolve(r, ConcurrentTexts)
    \/ GenerateContentReject(r)
    \/ Resume(r)

Spec == Init /\ [][Next]_vars

\* One request, over every upstream text.
NextNormalize ==
  \/ Receive(1, BasicInputs)
  \/ HandleGemini(1)
  \/ HandlePrompt(1)
  \/ GenerateContentResolve(1, UpstreamTexts)
  \/ GenerateContentReject(1)
  \/ Resume(1)

SpecNormalize == Init /\ [][NextNormalize]_vars

\* One request, over every route of every server and every input.
NextRoutes ==
  \/ Receive(1, AllInputs)
  \/ HandleGemini(1)
  \/ HandlePrompt(1)
  \/ HandleProcessDocumentStub(1)
  \/ GenerateContentResolve(1, ConcurrentTexts)
  \/ GenerateContentReject(1)
  \/ Resume(1)
  \/ HandleProcessDocument(1)
  \/ ProcessDocumentResolve(1, RouteDocuments)
  \/ ProcessDocumentReject(1)
  \/ ResumeProcessDocument(1)
  \/ HandleProcessorControl(1)
  \/ OperationStart(1)
  \/ OperationStartReject(1)
  \/ OperationComplete(1)
  \/ OperationFail(1)
  \/ ResumeProcessorControl(1)

SpecRoutes == InitRoutes /\ [][NextRoutes]_vars

\* One request to the Document AI server, over every document.
NextDocument ==
  \/ Receive(1, DocumentInputs)
  \/ HandleProcessDocument(1)
  \/ ProcessDocumentResolve(1, Documents)
  \/ ProcessDocumentReject(1)
  \/ ResumeProcessDocument(1)
  \/ HandleProcessorControl(1)
  \/ OperationStart(1)
  \/ OperationStartReject(1)
  \/ OperationComplete(1)
  \/ OperationFail(1)
  \/ ResumeProcessorControl(1)

SpecDocument == InitDocument /\ [][NextDocument]_vars

\* Requests handled concurrently, over every choice of model.
NextModel ==
  \E r \in Requests :
    \/ Receive(r, ModelInputs)
    \/ HandleGemini(r)
    \/ HandlePrompt(r)
    \/ GenerateContentResolve(r, {NameAli})
    \/ GenerateContentReject(r)
    \/ Resume(r)

SpecModel == InitModel /\ [][NextModel]_vars

\* A Gemini server from the start of its process.
NextStartup ==
  \/ Startup
  \/ Receive(1, BasicInputs)
  \/ HandleGemini(1)
  \/ HandlePrompt(1)
  \/ GenerateContentResolve(1, ConcurrentTexts)
  \/ GenerateContentReject(1)
  \/ Resume(1)

SpecStartup == InitStartup /\ [][NextStartup]_vars


(***************************************************************************)
(* Properties.                                                             *)
(***************************************************************************)
SchemaKeys == {allowedKeys[i] : i \in 1..Len(allowedKeys)}

Responded(r) == pc[r] = "done"

\* request r was answered after its upstream text arrived
AnsweredText(r) == pc[r] = "done" /\ rawText[r] # <<>>

Raw(r) == rawText[r][1]

Json(r) == response[r].jsonResponse

IsMalformedResponse(resp) ==
  resp.status = 500 /\ resp.error = ERR_PARSE /\ ~resp.hasJson

\* C1: in every 200 response of an extraction endpoint the keys of jsonResponse
\* are exactly the keys of the extraction schema.
C1_KeysEqualSchema ==
  \A r \in Requests :
    response[r].status = 200 => Keys(Json(r)) = SchemaKeys

\* C2: on server B's POST /api/gemini, an upstream object whose keys are schema
\* fields and whose values are strings comes back with every schema field, a
\* field present upstream carrying its upstream string and an absent one null.
C2_StringObjectPreserved ==
  \A r \in Requests : \A o \in ObjectValues :
    ( /\ server = "B" /\ route[r] = GEMINI /\ AnsweredText(r)
      /\ Raw(r) = Stringify(o)
      /\ Keys(o) \subseteq SchemaKeys
      /\ \A k \in Keys(o) : Get(o, k).t = "str" )
    => /\ response[r].status = 200
       /\ Keys(Json(r)) = SchemaKeys
       /\ \A k \in SchemaKeys :
            Get(Json(r), k) = IF HasKey(o, k) THEN Get(o, k) ELSE NullV

\* C3: every value of the jsonResponse of a 200 response is a string or null.
C3_ValuesStringOrNull ==
  \A r \in Requests :
    response[r].status = 200 =>
      \A k \in Keys(Json(r)) : Get(Json(r), k).t \in {"str", "null"}

\* a 200 response to an upstream object that held an array, an object, a
\* number or a boolean
C3_Witness ==
  \E r \in Requests :
    /\ response[r].status = 200
    /\ AnsweredText(r)
    /\ LET p == JSONparse(Cleaned(server, route[r], Raw(r)))
       IN p.ok /\ \E k \in Keys(p.v) : Get(p.v, k).t \in {"arr", "obj", "num", "bool"}

\* C4: a valid JSON object text wrapped in a code fence gets the response the
\* text without the fence gets, on every extraction endpoint.
C4_FenceTransparent ==
  \A r1, r2 \in Requests :
    ( /\ AnsweredText(r1) /\ AnsweredText(r2)
      /\ route[r1] = route[r2]
      /\ JSONparse(Raw(r2)).ok /\ JSONparse(Raw(r2)).v.t = "obj"
      /\ Raw(r1) \in Fencings(Raw(r2)) )
    => response[r1] = response[r2]

\* C5: when the upstream text, fences stripped and trimmed, is not parseable
\* as JSON, the request ends with the malformed-output 500 response and no
\* jsonResponse.
C5_UnparseableIs500 ==
  \A r \in Requests :
    (AnsweredText(r) /\ ~JSONparse(CleanText(Raw(r))).ok)
    => IsMalformedResponse(response[r])

\* a request answered after an unparseable upstream text
C5_Witness ==
  \E r \in Requests :
    /\ AnsweredText(r)
    /\ ~JSONparse(CleanText(Raw(r))).ok
    /\ response[r].status = 500

\* the upstream text of r, as it came or with its fences stripped, parses to
\* an array, to null or to a primitive
ParsesToNonObject(r) ==
  \E p \in {JSONparse(Raw(r)), JSONparse(CleanText(Raw(r)))} :
    p.ok /\ p.v.t # "obj"

\* C6: when the upstream text parses to an array, to null or to a primitive,
\* the request ends with the malformed-output 500 response and no jsonResponse.
C6_NonObjectIs500 ==
  \A r \in Requests :
    (AnsweredText(r) /\ ParsesToNonObject(r))
    => IsMalformedResponse(response[r])

\* requests answered 500 after an array (on a route that parses the array)
C6_Witness ==
  \E r \in Requests :
    /\ AnsweredText(r)
    /\ JSONparse(Cleaned(server, route[r], Raw(r))).ok
    /\ JSONparse(Cleaned(server, route[r], Raw(r))).v.t = "arr"
    /\ response[r].status = 500

\* C7: for every key of the upstream object kept in the output, an object or
\* array value is replaced by its JSON-serialized string and a number or
\* boolean by its textual form.
C7_ValuesSerialized ==
  \A r \in Requests : \A o \in ObjectValues :
    ( /\ AnsweredText(r)
      /\ Raw(r) = Stringify(o)
      /\ response[r].status = 200 )
    => \A k \in Keys(o) \cap Keys(Json(r)) :
         /\ Get(o, k).t \in {"arr", "obj"}
              => Get(Json(r), k) = StrV(Stringify(Get(o, k)))
         /\ Get(o, k).t \in {"num", "bool"}
              => Get(Json(r), k) = StrV(ToStr(Get(o, k)))

\* C8: the malformed-output body carries the parse error message and the raw
\* text only when NODE_ENV is 'development'; otherwise any two malformed
\* responses are the same body.
C8_DiagnosticsGated ==
  \A r1, r2 \in Requests :
    (response[r1].error = ERR_PARSE /\ response[r2].error = ERR_PARSE)
    => /\ nodeEnv # "development" => response[r1] = response[r2]
       /\ (response[r1].details # <<>> \/ response[r1].rawResponse # <<>>)
            => nodeEnv = "development"
       /\ nodeEnv = "development" => response[r1].details # <<>>

\* outside development, two malformed responses to different upstream texts
C8_Witness ==
  \E r1, r2 \in Requests :
    /\ nodeEnv # "development"
    /\ response[r1].error = ERR_PARSE /\ response[r2].error = ERR_PARSE
    /\ rawText[r1] # rawText[r2]

\* C9: a request makes at most one upstream call; a request answered after a
\* malformed text or an upstream failure has made exactly one.
C9_AtMostOneUpstreamCall ==
  \A r \in Requests :
    /\ calls[r] <= 1
    /\ (Responded(r) /\ response[r].status = 500) => calls[r] = 1
    /\ (Responded(r) /\ response[r].status = 400) => calls[r] = 0

\* a request answered 500 after a malformed upstream text
C9_Witness ==
  \E r \in Requests :
    AnsweredText(r) /\ response[r].error = ERR_PARSE /\ calls[r] = 1

\* C10: under every interleaving the response of a request is the outcome of
\* its own route and upstream text, and two requests on one route with the
\* same upstream text get the same response.
C10_RequestsIndependent ==
  /\ \A r \in Requests :
       AnsweredText(r) =>
         response[r] = HandlerOutcome(server, nodeEnv, route[r], Raw(r))
  /\ \A r1, r2 \in Requests :
       (AnsweredText(r1) /\ AnsweredText(r2)
          /\ route[r1] = route[r2] /\ Raw(r1) = Raw(r2))
       => response[r1] = response[r2]

\* two answered requests whose upstream texts and responses differ
C10_Witness ==
  \E r1, r2 \in Requests :
    /\ AnsweredText(r1) /\ AnsweredText(r2)
    /\ Raw(r1) # Raw(r2)
    /\ response[r1].status = 200 /\ response[r2].status = 500

\* C12: on the schema-enforcing endpoint a schema field whose upstream value
\* is JSON null carries null in the normalized result, as an absent field does.
C12_NullStaysNull ==
  \A r \in Requests : \A o \in ObjectValues :
    ( /\ EnforcesSchema(server, route[r]) /\ AnsweredText(r)
      /\ Raw(r) = Stringify(o)
      /\ response[r].status = 200 )
    => \A k \in Keys(o) \cap SchemaKeys :
         Get(o, k) = NullV => Get(Json(r), k) = NullV

\* C13: a string value holding a triple backtick appears unchanged in the
\* normalized result, whether or not the upstream text is fenced.
C13_InnerBackticksKept ==
  \A r \in Requests : \A o \in ObjectValues :
    ( /\ AnsweredText(r)
      /\ Raw(r) \in {Stringify(o)} \cup Fencings(Stringify(o))
      /\ response[r].status = 200 )
    => \A k \in Keys(o) \cap Keys(Json(r)) :
         Get(o, k).t = "str" => Get(Json(r), k) = Get(o, k)

\* the upload middleware passed an error to next for request r
UploadRejected(r) ==
  pc[r] # "idle" /\ UploadError(server, route[r], req[r]) # NoError

RejectionMessage(r) ==
  IF UploadError(server, route[r], req[r]) = LIMIT_FILE_SIZE THEN ERR_FILE_SIZE
  ELSE ERR_FILE_TYPE

\* C11: an upload that the upload middleware rejects for its MIME type or its
\* size is answered 400 with the rejection message, and neither the route
\* handler nor the upstream service is reached for it.
C11_RejectedUploadIs400 ==
  \A r \in Requests :
    UploadRejected(r) =>
      /\ pc[r] = "done"
      /\ response[r].status = 400
      /\ response[r].error = RejectionMessage(r)
      /\ calls[r] = 0
      /\ cloud[r] = <<>>

\* request r is one of the requests that validation refuses
FailsValidation(r) ==
  /\ pc[r] # "idle"
  /\ ~UploadRejected(r)
  /\ \/ route[r] \in {GEMINI, PROCESS_DOCUMENT} /\ req[r].file = NoFile
     \/ route[r] = PROMPT /\ req[r].text \in {<<>>, <<"">>}
     \/ /\ server = DOCAI /\ route[r] = PROCESS_DOCUMENT
        /\ req[r].file \notin {NoFile, PDF}

\* C14: a request that fails validation makes no upstream call and its
\* response is a 400.
C14_ValidationBeforeUpstream ==
  \A r \in Requests :
    FailsValidation(r) =>
      /\ pc[r] \in {"handler", "done"}
      /\ calls[r] = 0
      /\ cloud[r] = <<>>
      /\ pc[r] = "done" => response[r].status = 400 /\ sent[r] = 1

\* the Document AI server refused a file that is not a PDF
C14_Witness ==
  \E r \in Requests :
    /\ FailsValidation(r) /\ pc[r] = "done"
    /\ server = DOCAI /\ req[r].file = PNG
    /\ response[r].status = 400

\* C15: POST /processor-control with an action other than 'enable' or
\* 'disable' is answered 400 without a cloud call; 'enable' makes at most one
\* call, an enableProcessor, and 'disable' at most one, a disableProcessor.
C15_OnlyMatchingCloudCall ==
  \A r \in Requests :
    (route[r] = PROCESSOR_CONTROL /\ pc[r] # "idle") =>
      IF req[r].action = <<"enable">>
      THEN cloud[r] \in {<<>>, <<enableProcessor>>}
      ELSE IF req[r].action = <<"disable">>
      THEN cloud[r] \in {<<>>, <<disableProcessor>>}
      ELSE /\ cloud[r] = <<>>
           /\ pc[r] \in {"handler", "done"}
           /\ pc[r] = "done" => response[r].status = 400

\* a disable request answered 200 after its one disableProcessor call
C15_Witness ==
  \E r \in Requests :
    /\ route[r] = PROCESSOR_CONTROL /\ req[r].action = <<"disable">>
    /\ cloud[r] = <<disableProcessor>>
    /\ response[r].status = 200

\* C16: POST /processor-control answers 200 only once the long-running
\* operation has completed; a request whose cloud call or operation failed is
\* answered 500.
C16_SuccessAfterOperation ==
  \A r \in Requests :
    route[r] = PROCESSOR_CONTROL =>
      /\ sent[r] <= 1
      /\ response[r].status = 200 => opDone[r] /\ cloud[r] # <<>>
      /\ (pc[r] = "done" /\ cloud[r] # <<>> /\ ~opDone[r]) =>
           response[r].status = 500

\* an enable request answered 200 after its operation completed
C16_Witness ==
  \E r \in Requests :
    /\ route[r] = PROCESSOR_CONTROL /\ req[r].action = <<"enable">>
    /\ opDone[r]
    /\ response[r].status = 200

\* C17: a request that reached its route handler is answered exactly once: no
\* handler ends without a response and none sends a second one.
C17_ExactlyOneResponse ==
  \A r \in Requests :
    /\ sent[r] <= 1
    /\ pc[r] # "rejected"
    /\ (pc[r] = "done" /\ ~UploadRejected(r)) => sent[r] = 1

\* the mention texts of the entities of one type, in document order
MentionsOf(list, type) ==
  LET OfType(e) == e.type = type
      found == SelectSeq(list, OfType)
  IN [i \in 1..Len(found) |-> found[i].mentionText]

\* C18: the entities map of a Document AI response holds, for every entity
\* type of the document, every mention text of the type in document order: the
\* string when the type occurs once, the array of them when it occurs more.
\* The documents are those whose entities all carry a mention text, empty or
\* not.
C18_EveryMentionKept ==
  \A r \in Requests :
    ( /\ server = DOCAI /\ route[r] = PROCESS_DOCUMENT
      /\ response[r].status = 200
      /\ \A i \in 1..Len(document[r][1].entities) :
           document[r][1].entities[i].mentionText.t = "str" )
    => LET list == document[r][1].entities
           entities == response[r].entities
       IN /\ Keys(entities) = {list[i].type : i \in 1..Len(list)}
          /\ \A type \in Keys(entities) :
               Get(entities, type) =
                 IF Len(MentionsOf(list, type)) = 1
                 THEN MentionsOf(list, type)[1]
                 ELSE ArrV(MentionsOf(list, type))

\* C19: a Gemini server started without GEMINI_API_KEY logs the error and
\* exits with code 1; it creates no client, does not listen, serves no request.
C19_NoKeyNoService ==
  apiKeyEnv = <<>> =>
    /\ proc # "listening"
    /\ ~client
    /\ proc = "exited" => exitCode = 1 /\ logged
    /\ \A r \in Requests : pc[r] = "idle"

\* the model the claim names for request r
ModelByPrecedence(r) ==
  IF req[r].model \notin {<<>>, <<"">>} THEN req[r].model[1]
  ELSE IF modelEnv \notin {<<>>, <<"">>} THEN modelEnv[1]
  ELSE "gemini-2.5-flash"

\* C20 as stated: on every Gemini server the model of a request is the body's
\* model, else GEMINI_MODEL, else 'gemini-2.5-flash'.
C20_ModelByPrecedence ==
  \A r \in Requests :
    calls[r] > 0 => usedModel[r] = ModelByPrecedence(r)

\* C20: on servers B and C the model of a request is the body's model, else
\* GEMINI_MODEL, else 'gemini-2.5-flash'; on server A it is 'gemini-2.5-flash'
\* for every request; no request's choice changes another request's model.
C20_ModelByPrecedenceWhereRead ==
  \A r \in Requests :
    calls[r] > 0 =>
      usedModel[r] = IF server = "A" THEN "gemini-2.5-flash"
                     ELSE ModelByPrecedence(r)

\* two requests of one server, one using its body's model and the other the
\* environment's
C20_Witness ==
  \E r, q \in Requests :
    /\ server # "A"
    /\ calls[r] > 0 /\ calls[q] > 0
    /\ req[r].model \notin {<<>>, <<"">>} /\ usedModel[r] = req[r].model[1]
    /\ req[q].model = <<>> /\ modelEnv \notin {<<>>, <<"">>}
    /\ usedModel[q] = modelEnv[1]
    /\ pc[r] = "done" /\ pc[q] = "done"

=============================================================================
